---- MODULE Spec2Model ----
(***************************************************************************)
(* State-machine model of src/src/App.tsx (crypto-table): the App          *)
(* component's state as committed by each render, the setter calls that    *)
(* wait for the next render, its two effects (fetch, filter), its event    *)
(* handlers and the pure functions of the price column.                    *)
(*                                                                         *)
(* Strings on which the code performs a conversion (split, toLowerCase,    *)
(* includes, Number) are modelled as sequences of one-character strings so *)
(* that the conversions are computed, not assumed.                         *)
(*                                                                         *)
(* Rendering follows React 18 (createRoot): the setter calls of one        *)
(* callback are batched; the render that ends an event takes up the calls  *)
(* of that event only and its effects run before any other callback;       *)
(* calls made by effects and by promise continuations wait for a scheduled *)
(* render, whose effects run in a later task.                              *)
(***************************************************************************)
EXTENDS Integers, Sequences, FiniteSets, TLC

(* ------------------------------ bounds --------------------------------- *)
\* cap on the number of requests issued in one behaviour (mount included)
MaxRequests == 3
\* prices explored by the price-filter specification: 0..MaxPrice
MaxPrice == 720
\* longest trend series explored by the trend-cell specification
MaxTrendLen == 3
\* trend values explored by the trend-cell specification: 0..MaxTrendValue
MaxTrendValue == 4

(* --------------------------- string helpers ---------------------------- *)
\* The alphabet of the model is the Unicode blocks Basic Latin, Latin-1
\* Supplement, Latin Extended-A, Greek and Coptic, and Cyrillic.  A
\* character is a one-character string; a character that cannot be written
\* in a string of this module is named by its code point ("U+0160").
\* Upper lists every character of the alphabet that toLowerCase changes
\* into one other character and Lower, at the same index, the character it
\* becomes; every other character but the capital I with dot above is left
\* as it is.  Characters of other blocks are outside the alphabet.
Upper == <<"A","B","C","D","E","F","G","H","I","J",
           "K","L","M","N","O","P","Q","R","S","T",
           "U","V","W","X","Y","Z","À","Á","Â","Ã",
           "Ä","Å","Æ","Ç","È","É","Ê","Ë","Ì","Í",
           "Î","Ï","Ð","Ñ","Ò","Ó","Ô","Õ","Ö","Ø",
           "Ù","Ú","Û","Ü","Ý","Þ","U+0100","U+0102","U+0104","U+0106",
           "U+0108","U+010A","U+010C","U+010E","U+0110","U+0112","U+0114","U+0116","U+0118","U+011A",
           "U+011C","U+011E","U+0120","U+0122","U+0124","U+0126","U+0128","U+012A","U+012C","U+012E",
           "U+0132","U+0134","U+0136","U+0139","U+013B","U+013D","U+013F","U+0141","U+0143","U+0145",
           "U+0147","U+014A","U+014C","U+014E","U+0150","U+0152","U+0154","U+0156","U+0158","U+015A",
           "U+015C","U+015E","U+0160","U+0162","U+0164","U+0166","U+0168","U+016A","U+016C","U+016E",
           "U+0170","U+0172","U+0174","U+0176","U+0178","U+0179","U+017B","U+017D","U+0370","U+0372",
           "U+0376","U+037F","Ά","Έ","Ή","Ί","Ό","Ύ","Ώ","Α",
           "Β","Γ","Δ","Ε","Ζ","Η","Θ","Ι","Κ","Λ",
           "Μ","Ν","Ξ","Ο","Π","Ρ","Σ","Τ","Υ","Φ",
           "Χ","Ψ","Ω","Ϊ","Ϋ","Ϗ","Ϙ","Ϛ","Ϝ","Ϟ",
           "Ϡ","Ϣ","Ϥ","Ϧ","Ϩ","Ϫ","Ϭ","Ϯ","ϴ","Ϸ",
           "Ϲ","Ϻ","Ͻ","Ͼ","Ͽ","U+0400","U+0401","U+0402","U+0403","U+0404",
           "U+0405","U+0406","U+0407","U+0408","U+0409","U+040A","U+040B","U+040C","U+040D","U+040E",
           "U+040F","U+0410","U+0411","U+0412","U+0413","U+0414","U+0415","U+0416","U+0417","U+0418",
           "U+0419","U+041A","U+041B","U+041C","U+041D","U+041E","U+041F","U+0420","U+0421","U+0422",
           "U+0423","U+0424","U+0425","U+0426","U+0427","U+0428","U+0429","U+042A","U+042B","U+042C",
           "U+042D","U+042E","U+042F","U+0460","U+0462","U+0464","U+0466","U+0468","U+046A","U+046C",
           "U+046E","U+0470","U+0472","U+0474","U+0476","U+0478","U+047A","U+047C","U+047E","U+0480",
           "U+048A","U+048C","U+048E","U+0490","U+0492","U+0494","U+0496","U+0498","U+049A","U+049C",
           "U+049E","U+04A0","U+04A2","U+04A4","U+04A6","U+04A8","U+04AA","U+04AC","U+04AE","U+04B0",
           "U+04B2","U+04B4","U+04B6","U+04B8","U+04BA","U+04BC","U+04BE","U+04C0","U+04C1","U+04C3",
           "U+04C5","U+04C7","U+04C9","U+04CB","U+04CD","U+04D0","U+04D2","U+04D4","U+04D6","U+04D8",
           "U+04DA","U+04DC","U+04DE","U+04E0","U+04E2","U+04E4","U+04E6","U+04E8","U+04EA","U+04EC",
           "U+04EE","U+04F0","U+04F2","U+04F4","U+04F6","U+04F8","U+04FA","U+04FC","U+04FE">>
Lower == <<"a","b","c","d","e","f","g","h","i","j",
           "k","l","m","n","o","p","q","r","s","t",
           "u","v","w","x","y","z","à","á","â","ã",
           "ä","å","æ","ç","è","é","ê","ë","ì","í",
           "î","ï","ð","ñ","ò","ó","ô","õ","ö","ø",
           "ù","ú","û","ü","ý","þ","U+0101","U+0103","U+0105","U+0107",
           "U+0109","U+010B","U+010D","U+010F","U+0111","U+0113","U+0115","U+0117","U+0119","U+011B",
           "U+011D","U+011F","U+0121","U+0123","U+0125","U+0127","U+0129","U+012B","U+012D","U+012F",
           "U+0133","U+0135","U+0137","U+013A","U+013C","U+013E","U+0140","U+0142","U+0144","U+0146",
           "U+0148","U+014B","U+014D","U+014F","U+0151","U+0153","U+0155","U+0157","U+0159","U+015B",
           "U+015D","U+015F","U+0161","U+0163","U+0165","U+0167","U+0169","U+016B","U+016D","U+016F",
           "U+0171","U+0173","U+0175","U+0177","ÿ","U+017A","U+017C","U+017E","U+0371","U+0373",
           "U+0377","ϳ","ά","έ","ή","ί","ό","ύ","ώ","α",
           "β","γ","δ","ε","ζ","η","θ","ι","κ","λ",
           "μ","ν","ξ","ο","π","ρ","σ","τ","υ","φ",
           "χ","ψ","ω","ϊ","ϋ","ϗ","ϙ","ϛ","ϝ","ϟ",
           "ϡ","ϣ","ϥ","ϧ","ϩ","ϫ","ϭ","ϯ","θ","ϸ",
           "ϲ","ϻ","U+037B","U+037C","U+037D","U+0450","U+0451","U+0452","U+0453","U+0454",
           "U+0455","U+0456","U+0457","U+0458","U+0459","U+045A","U+045B","U+045C","U+045D","U+045E",
           "U+045F","U+0430","U+0431","U+0432","U+0433","U+0434","U+0435","U+0436","U+0437","U+0438",
           "U+0439","U+043A","U+043B","U+043C","U+043D","U+043E","U+043F","U+0440","U+0441","U+0442",
           "U+0443","U+0444","U+0445","U+0446","U+0447","U+0448","U+0449","U+044A","U+044B","U+044C",
           "U+044D","U+044E","U+044F","U+0461","U+0463","U+0465","U+0467","U+0469","U+046B","U+046D",
           "U+046F","U+0471","U+0473","U+0475","U+0477","U+0479","U+047B","U+047D","U+047F","U+0481",
           "U+048B","U+048D","U+048F","U+0491","U+0493","U+0495","U+0497","U+0499","U+049B","U+049D",
           "U+049F","U+04A1","U+04A3","U+04A5","U+04A7","U+04A9","U+04AB","U+04AD","U+04AF","U+04B1",
           "U+04B3","U+04B5","U+04B7","U+04B9","U+04BB","U+04BD","U+04BF","U+04CF","U+04C2","U+04C4",
           "U+04C6","U+04C8","U+04CA","U+04CC","U+04CE","U+04D1","U+04D3","U+04D5","U+04D7","U+04D9",
           "U+04DB","U+04DD","U+04DF","U+04E1","U+04E3","U+04E5","U+04E7","U+04E9","U+04EB","U+04ED",
           "U+04EF","U+04F1","U+04F3","U+04F5","U+04F7","U+04F9","U+04FB","U+04FD","U+04FF">>
Digits == <<"0","1","2","3","4","5","6","7","8","9">>

\* capital I with dot above and the combining dot above
DottedI == "U+0130"
DotAbove == "U+0307"

\* the cased letters of the alphabet that are in neither Upper nor Lower
OtherCased == {"ª","µ","º","ß","U+0131","U+0138","U+0149","U+017F","U+037A","ΐ",
               "ΰ","ς","ϐ","ϑ","ϒ","ϓ","ϔ","ϕ","ϖ","ϰ",
               "ϱ","ϵ","ϼ"}

\* the characters of the alphabet (and the combining dot above) that the
\* Final_Sigma rule skips over
CaseIgnorable == {"'",".",":","^","U+0060","¨","U+00AD","¯","´","·",
                  "¸","U+0374","U+0375","U+037A","΄","΅","U+0387","U+0483","U+0484","U+0485",
                  "U+0486","U+0487","U+0488","U+0489",DotAbove}

\* the lower-case partner of each letter of Upper
LowerOf ==
  [c \in {Upper[i] : i \in 1..Len(Upper)} |->
     Lower[CHOOSE i \in 1..Len(Upper) : Upper[i] = c]]

\* the cased letters
CasedLetters ==
  {Upper[i] : i \in 1..Len(Upper)} \cup {Lower[i] : i \in 1..Len(Lower)}
     \cup OtherCased \cup {DottedI}

\* the character is a cased letter
Cased(c) == c \in CasedLetters

\* String.prototype.toLowerCase on one character taken alone: the
\* characters of the result (two for the capital I with dot above)
LowerChar(c) ==
  IF c = DottedI THEN <<"i", DotAbove>>
  ELSE IF c \in DOMAIN LowerOf THEN <<LowerOf[c]>>
  ELSE <<c>>

\* Final_Sigma: the nearest character before s[i] that is not
\* case-ignorable is a cased letter, and the nearest one after it, if any,
\* is not
FinalSigma(s, i) ==
  /\ \E j \in 1..(i - 1) :
        /\ s[j] \notin CaseIgnorable /\ Cased(s[j])
        /\ \A k \in (j + 1)..(i - 1) : s[k] \in CaseIgnorable
  /\ ~\E j \in (i + 1)..Len(s) :
        /\ s[j] \notin CaseIgnorable /\ Cased(s[j])
        /\ \A k \in (i + 1)..(j - 1) : s[k] \in CaseIgnorable

\* the characters toLowerCase puts in place of s[i]
LowerAt(s, i) ==
  IF s[i] = "Σ" /\ FinalSigma(s, i) THEN <<"ς">> ELSE LowerChar(s[i])

\* the lower-cased characters of s from position i on
RECURSIVE LowerFrom(_, _)
LowerFrom(s, i) ==
  IF i > Len(s) THEN <<>> ELSE LowerAt(s, i) \o LowerFrom(s, i + 1)

\* String.prototype.toLowerCase: every character is replaced in place,
\* except the capital I with dot above, which makes the string longer
ToLowerCase(s) ==
  IF \A i \in 1..Len(s) : s[i] # DottedI
  THEN [i \in 1..Len(s) |-> LowerAt(s, i)[1]]
  ELSE LowerFrom(s, 1)

\* s.startsWith(t) at 1-based position i
MatchAt(s, t, i) ==
  /\ i + Len(t) - 1 <= Len(s)
  /\ \A k \in 1..Len(t) : s[i + k - 1] = t[k]

\* String.prototype.indexOf (1-based; 0 when absent)
IndexOf(s, t) ==
  IF \E i \in 1..(Len(s) + 1) : MatchAt(s, t, i)
  THEN CHOOSE i \in 1..(Len(s) + 1) :
         MatchAt(s, t, i) /\ \A j \in 1..(i - 1) : ~MatchAt(s, t, j)
  ELSE 0

\* String.prototype.includes
Includes(s, t) == \E i \in 1..(Len(s) + 1) : MatchAt(s, t, i)

\* String.prototype.split with a non-empty string separator
RECURSIVE Split(_, _)
Split(s, sep) ==
  LET i == IndexOf(s, sep) IN
  IF i = 0 THEN <<s>>
  ELSE <<SubSeq(s, 1, i - 1)>> \o Split(SubSeq(s, i + Len(sep), Len(s)), sep)

DigitVal(c) == (CHOOSE i \in 1..10 : Digits[i] = c) - 1

\* Number(s) for a string of decimal digits ("" converts to 0)
RECURSIVE Number(_)
Number(s) ==
  IF s = <<>> THEN 0
  ELSE Number(SubSeq(s, 1, Len(s) - 1)) * 10 + DigitVal(s[Len(s)])

(* ---------------------------- static tables ---------------------------- *)
\* keys of currencyItems
currencyItems == { <<"U","S","D"," ","$">>, <<"E","U","R"," ","€">> }

\* keys of sortOrderItems
sortOrderItems == { <<"m","a","r","k","e","t","_","c","a","p","_","d","e","s","c">>,
                    <<"m","a","r","k","e","t","_","c","a","p","_","a","s","c">> }

MARKET_CAP_DESC == <<"m","a","r","k","e","t","_","c","a","p","_","d","e","s","c">>
MARKET_CAP_ASC  == <<"m","a","r","k","e","t","_","c","a","p","_","a","s","c">>

\* values of the price column's filters, in order
priceFilters ==
  << <<"0"," ","-"," ","1","0","0">>,
     <<"1","0","0"," ","-"," ","2","0","0">>,
     <<"2","0","0"," ","-"," ","3","0","0">>,
     <<"3","0","0"," ","-"," ","4","0","0">>,
     <<"4","0","0"," ","-"," ","5","0","0">>,
     <<"5","0","0"," ","-"," ","6","0","0">>,
     <<"6","0","0"," ","-"," ","7","0","0">>,
     <<"7","0","0">> >>

(* ------------------------- environment inputs -------------------------- *)
Coin(n, p, s) ==
  [name |-> n, image |-> "img", current_price |-> p,
   circulating_supply |-> 1, sparkline_in_7d |-> [price |-> s]]

Bitcoin     == Coin(<<"B","i","t","c","o","i","n">>, 650, <<1, 2>>)
Ethereum    == Coin(<<"E","t","h","e","r","e","u","m">>, 300, <<2, 1>>)
BitcoinCash == Coin(<<"B","i","t","c","o","i","n"," ","C","a","s","h">>, 100, <<1, 1>>)
Tether      == Coin(<<"T","e","t","h","e","r">>, 1, <<1, 1>>)

\* payloads the remote API may answer with
Responses == { <<Bitcoin, Ethereum, BitcoinCash>>, <<Tether, Ethereum>> }

\* values the search box may be given
Queries == { <<>>, <<"B","i","T">> }

\* page sizes offered by the pagination control
PageSizes == {10, 20}

\* pages the pagination control may be asked for
Pages == {1, 2}

\* origin of data that came from no request
NoReq == [vs_currency |-> <<>>]

\* no axios.get call was made yet
NoRequest ==
  [id |-> 0, params |-> [vs_currency |-> <<>>, order |-> <<>>, per_page |-> 0, page |-> 0]]

VARIABLES
  mounted,       \* the effects of the first commit have run
  currency,      \* useState: {label, symbol}, as committed by the last render
  sortOrder,     \* useState: {label, key}
  pagination,    \* useState: {totalCount, pageSize, current}
  data,          \* useState: Array<CoinType>
  filterQuery,   \* useState: string
  filteredData,  \* useState: Array<CoinType>
  isLoading,     \* useState: boolean
  columns,       \* useMemo(..., [data]): the currency symbol captured by the price render
  queue,         \* for each setter, its last call since the last render (if any)
  due,           \* effects whose dependencies changed in the last commit and that have not run yet
  inflight,      \* axios.get promises that are still pending: request number and currency
  issued,        \* number of axios.get calls made
  sent,          \* the last axios.get call: its number and its query parameters
  toasts,        \* number of toast.error calls made
  rejected,      \* number of requests that rejected
  loadingCleared,\* number of setIsLoading(false) calls made
  nEvents,       \* number of currency, sort-order and pagination events handled
  dataReq,       \* origin of the response data holds (NoReq before the first)
  lastStep,      \* the step taken last: its kind and the page that was current before it
  fRecord,       \* price filter: the record under test
  fValue,        \* price filter: the bucket value under test
  fResult,       \* price filter: result of onFilter(fValue, fRecord)
  fMatching,     \* price filter: bucket values for which onFilter accepted fRecord
  fPc,           \* price filter: "input" before the filter ran, "done" after
  tSeries,       \* trend cell: record.sparkline_in_7d.price of the row under test
  tStroke,       \* trend cell: stroke given to the Line
  tPc            \* trend cell: "input" before the cell rendered, "done" after

appVars == <<mounted, currency, sortOrder, pagination, data, filterQuery,
             filteredData, isLoading, columns, queue, due, inflight, issued, sent,
             toasts, rejected, loadingCleared, nEvents, dataReq, lastStep>>
\* the state the last render committed
committed == <<currency, sortOrder, pagination, data, filterQuery,
               filteredData, isLoading, columns, dataReq>>
fVars == <<fRecord, fValue, fResult, fMatching, fPc>>
tVars == <<tSeries, tStroke, tPc>>
vars == <<mounted, currency, sortOrder, pagination, data, filterQuery,
          filteredData, isLoading, columns, queue, due, inflight, issued, sent,
          toasts, rejected, loadingCleared, nEvents, dataReq, lastStep,
          fRecord, fValue, fResult, fMatching, fPc,
          tSeries, tStroke, tPc>>

(* --------------------------- state updates ----------------------------- *)
\* the state variables that have a setter
Hooks == {"currency", "sortOrder", "pagination", "data",
          "filterQuery", "filteredData", "isLoading"}

\* one setter call: the state variable, the value given, and for setData
\* the origin of the response given
Upd(var, val, req) == [var |-> var, val |-> val, req |-> req]

\* no setter was called since the last render
NoCalls == [h \in Hooks |-> <<>>]

\* the calls cs are made in order on top of q; every setter is called with
\* a plain value, so for each state variable the render uses its last call
RECURSIVE Enqueue(_, _)
Enqueue(q, cs) ==
  IF cs = <<>> THEN q
  ELSE Enqueue([q EXCEPT ![Head(cs).var] = <<Head(cs)>>], Tail(cs))

\* the value of state variable var once the calls of q are applied to cur
Applied(q, var, cur) == IF q[var] = <<>> THEN cur ELSE q[var][1].val

\* the request of the last setData call of q (cur when there is none)
AppliedReq(q, cur) == IF q["data"] = <<>> THEN cur ELSE q["data"][1].req

\* q holds a call of one of the setters of vs
Sets(q, vs) == \E h \in vs : q[h] # <<>>

\* the effects a commit left to run, and whether that commit ended an
\* event (its effects then run before any other callback) or was a
\* scheduled render (its effects run in a later task)
NoneDue == [fetch |-> FALSE, filter |-> FALSE, sync |-> FALSE]

\* variant: the dependencies of the fetch effect are compared by value
FetchDepsChanged_byValue(q) ==
  \/ Applied(q, "currency", currency) # currency
  \/ Applied(q, "sortOrder", sortOrder) # sortOrder
  \/ Applied(q, "pagination", pagination) # pagination

\* [currency, sortOrder, pagination] changed by reference: a setter of one
\* of them was called with a new object
FetchDepsChanged(q) == Sets(q, {"currency", "sortOrder", "pagination"})

\* [filterQuery, data] changed: another string, or setData with a new array
FilterDepsChanged(q) ==
  \/ Applied(q, "filterQuery", filterQuery) # filterQuery
  \/ Sets(q, {"data"})

\* a render applies the setter calls of q and is committed: every state
\* variable takes the value of its last call, columns is recomputed when
\* data was set, and the effects whose dependencies changed become due;
\* the calls of rest stay queued; sync says the render ends an event
Commit(q, rest, sync) ==
  /\ currency' = Applied(q, "currency", currency)
  /\ sortOrder' = Applied(q, "sortOrder", sortOrder)
  /\ pagination' = Applied(q, "pagination", pagination)
  /\ data' = Applied(q, "data", data)
  /\ dataReq' = AppliedReq(q, dataReq)
  /\ filterQuery' = Applied(q, "filterQuery", filterQuery)
  /\ filteredData' = Applied(q, "filteredData", filteredData)
  /\ isLoading' = Applied(q, "isLoading", isLoading)
  /\ columns' = IF Sets(q, {"data"}) THEN [symbol |-> currency'.symbol] ELSE columns
  /\ due' = [fetch |-> FetchDepsChanged(q), filter |-> FilterDepsChanged(q),
             sync |-> sync /\ (FetchDepsChanged(q) \/ FilterDepsChanged(q))]
  /\ queue' = rest

(* ------------------------------ fetch effect --------------------------- *)
\* the query parameters of the axios.get call
RequestParams(cur, so, pg) ==
  [vs_currency |-> ToLowerCase(cur.label),
   order       |-> ToLowerCase(so.key),
   per_page    |-> pg.pageSize,
   page        |-> pg.current]

\* the pending promise of request r: the request's number and the
\* currency it asked for
Tag(r) == [id |-> r.id, vs_currency |-> r.params.vs_currency]

\* what is remembered of the request a response answers: the currency it
\* asked for
Origin(t) == [vs_currency |-> t.vs_currency]

\* the request issued by one run of the fetch effect
NewRequest(cur, so, pg) ==
  [id |-> issued + 1, params |-> RequestParams(cur, so, pg)]

\* synchronous part of the fetch effect: setIsLoading(true), axios.get(...)
FetchEffect(cur, so, pg) ==
  [calls |-> <<Upd("isLoading", TRUE, NoReq)>>,
   requests |-> {NewRequest(cur, so, pg)}]

(* ------------------------------ filter effect -------------------------- *)
\* variant: the query is not lower-cased before the comparison
FilterByName_caseSensitive(d, q) ==
  SelectSeq(d, LAMBDA coin : Includes(ToLowerCase(coin.name), q))

\* data.filter(coin => coin.name.toLowerCase().includes(filterQuery.toLowerCase()))
FilterByName(d, q) ==
  SelectSeq(d, LAMBDA coin : Includes(ToLowerCase(coin.name), ToLowerCase(q)))

\* variant: an empty query clears filteredData
FilterEffect_clearsOnEmpty(q, d) ==
  IF q # <<>> THEN <<Upd("filteredData", FilterByName(d, q), NoReq)>>
  ELSE <<Upd("filteredData", <<>>, NoReq)>>

\* the setter calls of one run of the filter effect on (q, d)
FilterEffect(q, d) ==
  IF q # <<>> THEN <<Upd("filteredData", FilterByName(d, q), NoReq)>> ELSE <<>>

\* variant: the Table always reads filteredData
dataSource_filteredOnly(q, fd, d) == fd

\* the Table's dataSource
dataSource(q, fd, d) == IF q # <<>> THEN fd ELSE d

Displayed == dataSource(filterQuery, filteredData, data)

(* ------------------------------ handlers ------------------------------- *)
\* variant: the page is not reset
ResetPage_keep(pg) == pg

\* { ...pagination, current: 1 }
ResetPage(pg) == [pg EXCEPT !.current = 1]

\* const [label, symbol] = e.key.split(" "); { label, symbol }
CurrencyOfKey(key) ==
  LET parts == Split(key, <<" ">>) IN [label |-> parts[1], symbol |-> parts[2]]

\* variant: the new pagination object is built without the spread, so
\* totalCount is lost (read back as 0)
PageChange_noSpread(pg, current, size) ==
  [totalCount |-> 0, pageSize |-> size, current |-> current]

\* { ...pagination, current, pageSize: size }
PageChange(pg, current, size) ==
  [pg EXCEPT !.current = current, !.pageSize = size]

\* total of the Table's pagination prop
paginationTotal == pagination.totalCount

\* the symbol the price cells are rendered with: currency.symbol as
\* captured by the memoized columns
renderedSymbol == columns.symbol

\* the setter calls of handleSortOrder: the switch has two cases and no
\* default, so any other key calls no setter
SortOrderOfKey(key) ==
  CASE key = MARKET_CAP_DESC ->
         <<Upd("pagination", ResetPage(pagination), NoReq),
           Upd("sortOrder", [label |-> "Market Cap Decending", key |-> MARKET_CAP_DESC], NoReq)>>
    [] key = MARKET_CAP_ASC ->
         <<Upd("pagination", ResetPage(pagination), NoReq),
           Upd("sortOrder", [label |-> "Market Cap Ascending", key |-> MARKET_CAP_ASC], NoReq)>>
    [] OTHER -> <<>>

\* the first render is committed with the useState initial values; the two
\* effects of that commit have not run yet
InitApp ==
  /\ mounted = FALSE
  /\ currency = [label |-> <<"U","S","D">>, symbol |-> <<"$">>]
  /\ sortOrder = [label |-> "Market Cap Decending", key |-> MARKET_CAP_DESC]
  /\ pagination = [totalCount |-> 10000, pageSize |-> 10, current |-> 1]
  /\ data = <<>>
  /\ filterQuery = <<>>
  /\ filteredData = <<>>
  /\ isLoading = FALSE
  /\ columns = [symbol |-> <<"$">>]
  /\ queue = NoCalls
  /\ due = [fetch |-> TRUE, filter |-> TRUE, sync |-> FALSE]
  /\ inflight = {}
  /\ issued = 0
  /\ sent = NoRequest
  /\ toasts = 0
  /\ rejected = 0
  /\ loadingCleared = 0
  /\ nEvents = 0
  /\ dataReq = NoReq
  /\ lastStep = [kind |-> "init", pageBefore |-> 1]

Init ==
  /\ InitApp
  /\ fRecord = Coin(<<>>, 0, <<>>)
  /\ fValue = priceFilters[1]
  /\ fResult = FALSE
  /\ fMatching = {}
  /\ fPc = "input"
  /\ tSeries = <<1, 1>>
  /\ tStroke = "none"
  /\ tPc = "input"

\* the effects that are due run against the committed state, the fetch
\* effect first: their setter calls are queued for the next render
RunEffects(kind) ==
  /\ \E fe \in {IF due.fetch THEN FetchEffect(currency, sortOrder, pagination)
                 ELSE [calls |-> <<>>, requests |-> {}]} :
       \E fi \in {IF due.filter THEN FilterEffect(filterQuery, data) ELSE <<>>} :
          /\ queue' = Enqueue(queue, fe.calls \o fi)
          /\ inflight' = inflight \cup {Tag(r) : r \in fe.requests}
          /\ issued' = issued + Cardinality(fe.requests)
          /\ sent' = IF fe.requests = {} THEN sent ELSE CHOOSE r \in fe.requests : TRUE
  /\ due' = NoneDue
  /\ lastStep' = [kind |-> kind, pageBefore |-> pagination.current]
  /\ UNCHANGED committed
  /\ UNCHANGED <<toasts, rejected, loadingCleared, nEvents>>
  /\ UNCHANGED fVars
  /\ UNCHANGED tVars

\* the effects of the first commit run
Mount ==
  /\ ~mounted
  /\ mounted' = TRUE
  /\ RunEffects("mount")

\* the effects of a later commit run
Effects ==
  /\ mounted
  /\ due # NoneDue
  /\ UNCHANGED mounted
  /\ RunEffects("effects")

\* no effect is due.  An event that arrives, or a scheduled render that
\* starts, while effects are due lets them run first, and an event handler
\* reads only committed state, which effects do not change: events and
\* scheduled renders are taken from these states.
Idle == mounted /\ due = NoneDue

\* the continuation of a request may run: it is a task of its own, which
\* can come between a scheduled render and the effects of that render,
\* but not between the render that ends an event and its effects
CallbackMayRun == mounted /\ ~due.sync

\* an event handler made the setter calls cs: the render that ends the
\* event applies these calls only; the calls queued by effects and
\* continuations wait for the scheduled render
HandlerCommit(cs) ==
  /\ Commit(Enqueue(NoCalls, cs), queue, TRUE)
  /\ UNCHANGED <<mounted, inflight, issued, sent, toasts, rejected, loadingCleared>>
  /\ UNCHANGED fVars
  /\ UNCHANGED tVars

\* click on an item of the currency dropdown
handleCurrencyChange(key) ==
  /\ Idle
  /\ issued < MaxRequests
  /\ HandlerCommit(<<Upd("pagination", ResetPage(pagination), NoReq),
                     Upd("currency", CurrencyOfKey(key), NoReq)>>)
  /\ nEvents' = nEvents + 1
  /\ lastStep' = [kind |-> "currency", pageBefore |-> pagination.current]

\* click on an item of the sort-order dropdown
handleSortOrder(key) ==
  /\ Idle
  /\ issued < MaxRequests
  /\ IF SortOrderOfKey(key) = <<>>
     THEN UNCHANGED vars
     ELSE /\ HandlerCommit(SortOrderOfKey(key))
          /\ nEvents' = nEvents + 1
          /\ lastStep' = [kind |-> "sort", pageBefore |-> pagination.current]

\* onChange of the Table's pagination
paginationOnChange(current, size) ==
  /\ Idle
  /\ issued < MaxRequests
  /\ HandlerCommit(<<Upd("pagination", PageChange(pagination, current, size), NoReq)>>)
  /\ nEvents' = nEvents + 1
  /\ lastStep' = [kind |-> "page", pageBefore |-> pagination.current]

\* onChange of the search Input
searchOnChange(q) ==
  /\ Idle
  /\ q # filterQuery
  /\ HandlerCommit(<<Upd("filterQuery", q, NoReq)>>)
  /\ UNCHANGED nEvents
  /\ lastStep' = [kind |-> "type", pageBefore |-> pagination.current]

\* variant: a response is applied only if it answers the latest request
DataOnSuccess_latestOnly(old, resp, r) == IF r.id = issued THEN resp ELSE old

\* variant: the response is appended to the rows already held
DataOnSuccess_merge(old, resp, r) == old \o resp

\* value given to setData when request r resolved with payload resp
DataOnSuccess(old, resp, r) == resp

\* variant: setIsLoading(false) is skipped on the success path
FetchResolved_keepsLoading(r, resp) ==
  /\ CallbackMayRun
  /\ r \in inflight
  /\ inflight' = inflight \ {r}
  /\ queue' = Enqueue(queue, <<Upd("data", DataOnSuccess(data, resp, r), Origin(r))>>)
  /\ lastStep' = [kind |-> "resolve", pageBefore |-> pagination.current]
  /\ UNCHANGED committed
  /\ UNCHANGED <<mounted, due, issued, sent, toasts, rejected, nEvents, loadingCleared>>
  /\ UNCHANGED fVars
  /\ UNCHANGED tVars

\* axios.get of request r resolves with payload resp: the continuation
\* calls setData(data) and setIsLoading(false)
FetchResolved(r, resp) ==
  /\ CallbackMayRun
  /\ r \in inflight
  /\ inflight' = inflight \ {r}
  /\ queue' = Enqueue(queue, <<Upd("data", DataOnSuccess(data, resp, r), Origin(r)),
                         Upd("isLoading", FALSE, NoReq)>>)
  /\ loadingCleared' = loadingCleared + 1
  /\ lastStep' = [kind |-> "resolve", pageBefore |-> pagination.current]
  /\ UNCHANGED committed
  /\ UNCHANGED <<mounted, due, issued, sent, toasts, rejected, nEvents>>
  /\ UNCHANGED fVars
  /\ UNCHANGED tVars

\* variant: the failure handler also drops the rows held
FetchRejected_clearsData(r) ==
  /\ CallbackMayRun
  /\ r \in inflight
  /\ inflight' = inflight \ {r}
  /\ toasts' = toasts + 1
  /\ rejected' = rejected + 1
  /\ queue' = Enqueue(queue, <<Upd("data", <<>>, Origin(r)), Upd("isLoading", FALSE, NoReq)>>)
  /\ loadingCleared' = loadingCleared + 1
  /\ lastStep' = [kind |-> "reject", pageBefore |-> pagination.current]
  /\ UNCHANGED committed
  /\ UNCHANGED <<mounted, due, issued, sent, nEvents>>
  /\ UNCHANGED fVars
  /\ UNCHANGED tVars

\* variant: the failure handler issues the request again
FetchRejected_retry(r) ==
  /\ CallbackMayRun
  /\ r \in inflight
  /\ inflight' = (inflight \ {r}) \cup {[r EXCEPT !.id = issued + 1]}
  /\ issued' = issued + 1
  /\ sent' = [sent EXCEPT !.id = issued + 1]
  /\ toasts' = toasts + 1
  /\ rejected' = rejected + 1
  /\ queue' = Enqueue(queue, <<Upd("isLoading", FALSE, NoReq)>>)
  /\ loadingCleared' = loadingCleared + 1
  /\ lastStep' = [kind |-> "reject", pageBefore |-> pagination.current]
  /\ UNCHANGED committed
  /\ UNCHANGED <<mounted, due, nEvents>>
  /\ UNCHANGED fVars
  /\ UNCHANGED tVars

\* axios.get of request r rejects: the continuation calls toast.error(...)
\* and setIsLoading(false)
FetchRejected(r) ==
  /\ CallbackMayRun
  /\ r \in inflight
  /\ inflight' = inflight \ {r}
  /\ toasts' = toasts + 1
  /\ rejected' = rejected + 1
  /\ queue' = Enqueue(queue, <<Upd("isLoading", FALSE, NoReq)>>)
  /\ loadingCleared' = loadingCleared + 1
  /\ lastStep' = [kind |-> "reject", pageBefore |-> pagination.current]
  /\ UNCHANGED committed
  /\ UNCHANGED <<mounted, due, issued, sent, nEvents>>
  /\ UNCHANGED fVars
  /\ UNCHANGED tVars

\* React renders the setter calls queued by effects and continuations
Render ==
  /\ Idle
  /\ queue # NoCalls
  /\ Commit(queue, NoCalls, FALSE)
  /\ lastStep' = [kind |-> "render", pageBefore |-> pagination.current]
  /\ UNCHANGED <<mounted, inflight, issued, sent, toasts, rejected, loadingCleared, nEvents>>
  /\ UNCHANGED fVars
  /\ UNCHANGED tVars

Next ==
  \/ Mount
  \/ Effects
  \/ Render
  \/ \E key \in currencyItems : handleCurrencyChange(key)
  \/ \E key \in sortOrderItems : handleSortOrder(key)
  \/ \E current \in Pages, size \in PageSizes : paginationOnChange(current, size)
  \/ \E q \in Queries : searchOnChange(q)
  \/ \E r \in inflight, resp \in Responses : FetchResolved(r, resp)
  \/ \E r \in inflight : FetchRejected(r)

Spec == Init /\ [][Next]_vars

\* React runs the effects that are due, and the scheduled render gets its
\* turn however many events are handled in between
SpecLive == Spec /\ SF_vars(Render) /\ WF_vars(Effects) /\ WF_vars(Mount)

(* --------------------------- price column filter ----------------------- *)
\* variant: the lower bound is exclusive
onFilter_strictMin(value, record) ==
  LET parts == Split(value, <<" ","-"," ">>)
      min == parts[1]
      noMax == Len(parts) < 2 \/ parts[2] = <<>>
  IN IF noMax
     THEN record.current_price > Number(min)
     ELSE /\ record.current_price > Number(min)
          /\ record.current_price <= Number(parts[2])

\* variant: the upper bound is exclusive
onFilter_halfOpen(value, record) ==
  LET parts == Split(value, <<" ","-"," ">>)
      min == parts[1]
      noMax == Len(parts) < 2 \/ parts[2] = <<>>
  IN IF noMax
     THEN record.current_price >= Number(min)
     ELSE /\ record.current_price >= Number(min)
          /\ record.current_price < Number(parts[2])

\* onFilter of the "Current Price" column
onFilter(value, record) ==
  LET parts == Split(value, <<" ","-"," ">>)
      min == parts[1]
      noMax == Len(parts) < 2 \/ parts[2] = <<>>
  IN IF noMax
     THEN record.current_price >= Number(min)
     ELSE /\ record.current_price >= Number(min)
          /\ record.current_price <= Number(parts[2])

\* a record with an integer price and one of the eight bucket values
InitPrice ==
  /\ InitApp
  /\ fRecord \in { Coin(<<"X">>, p, <<1, 1>>) : p \in 0..MaxPrice }
  /\ fValue \in { priceFilters[i] : i \in 1..Len(priceFilters) }
  /\ fResult = FALSE
  /\ fMatching = {}
  /\ fPc = "input"
  /\ tSeries = <<1, 1>>
  /\ tStroke = "none"
  /\ tPc = "input"

\* the table evaluates onFilter for the record: with the selected bucket
\* value, and with each of the column's bucket values
ApplyPriceFilter ==
  /\ fPc = "input"
  /\ fResult' = onFilter(fValue, fRecord)
  /\ fMatching' = { v \in { priceFilters[i] : i \in 1..Len(priceFilters) } :
                      onFilter(v, fRecord) }
  /\ fPc' = "done"
  /\ UNCHANGED <<fRecord, fValue>>
  /\ UNCHANGED appVars
  /\ UNCHANGED tVars

NextPrice == ApplyPriceFilter

SpecPrice == InitPrice /\ [][NextPrice]_vars

(* ------------------------------ trend cell ----------------------------- *)
RED == "#d61616"
GREEN == "#19db39"

\* variant: a series that ends where it started is drawn red
stroke_tieRed(price) ==
  IF price[1] >= price[Len(price)] THEN RED ELSE GREEN

\* stroke of the Line: price[0] > price[price.length - 1] ? red : green
stroke(price) ==
  IF price[1] > price[Len(price)] THEN RED ELSE GREEN

\* a row whose trend series has 1..MaxTrendLen integer values
InitTrend ==
  /\ InitApp
  /\ fRecord = Coin(<<>>, 0, <<>>)
  /\ fValue = priceFilters[1]
  /\ fResult = FALSE
  /\ fMatching = {}
  /\ fPc = "input"
  /\ tSeries \in UNION { [1..n -> 0..MaxTrendValue] : n \in 1..MaxTrendLen }
  /\ tStroke = "none"
  /\ tPc = "input"

\* the trend cell of the row is rendered
RenderTrend ==
  /\ tPc = "input"
  /\ tStroke' = stroke(tSeries)
  /\ tPc' = "done"
  /\ UNCHANGED tSeries
  /\ UNCHANGED appVars
  /\ UNCHANGED fVars

NextTrend == RenderTrend

SpecTrend == InitTrend /\ [][NextTrend]_vars

(* ======================================================================= *)
(*                               Properties                                *)
(* ======================================================================= *)

USD_KEY == <<"U","S","D"," ","$">>
EUR_KEY == <<"E","U","R"," ","€">>
usd == <<"u","s","d">>
eur == <<"e","u","r">>
BiT == <<"B","i","T">>

\* nothing waits for a render and no effect is due
Settled == mounted /\ queue = NoCalls /\ due = NoneDue

\* this step is a render being committed with a call of setter h in it
Commits(h) == queue[h] # <<>> /\ queue'[h] = <<>>

\* this step runs the effects that are due
EffectsStep == due # NoneDue /\ due' = NoneDue

\* this step is the continuation of a request that succeeded
ResolveStep ==
  /\ Cardinality(inflight') < Cardinality(inflight)
  /\ rejected' = rejected

\* this step is the continuation of a request that failed
RejectStep == rejected' = rejected + 1

\* this step is a currency-selection or sort-order-selection event
SelectionStep ==
  /\ nEvents' = nEvents + 1
  /\ lastStep'.kind \in {"currency", "sort"}

\* C1: a currency-selection or sort-order-selection event leaves
\* pagination.current equal to 1, whatever the page before, and keeps
\* pageSize as it was.
C1_SelectionResetsPage ==
  [][SelectionStep =>
       /\ pagination'.current = 1
       /\ pagination'.pageSize = pagination.pageSize]_vars

\* a selection event handled while page 2 with page size 20 was active
C1_Witness ==
  /\ lastStep.kind \in {"currency", "sort"}
  /\ lastStep.pageBefore = 2
  /\ pagination.current = 1
  /\ pagination.pageSize = 20

\* C2: the continuation of a rejected request leaves data, filteredData,
\* filterQuery, currency, sortOrder and pagination unchanged (so the rows
\* displayed stay the same) and calls setIsLoading(false) exactly once and
\* no other setter; the render that takes up that call commits isLoading
\* as false.
C2_FailureKeepsState ==
  [][/\ RejectStep =>
          /\ data' = data
          /\ filteredData' = filteredData
          /\ filterQuery' = filterQuery
          /\ currency' = currency
          /\ sortOrder' = sortOrder
          /\ pagination' = pagination
          /\ Displayed' = Displayed
          /\ queue' = [queue EXCEPT !["isLoading"] = <<Upd("isLoading", FALSE, NoReq)>>]
          /\ loadingCleared' = loadingCleared + 1
     /\ Commits("isLoading") => isLoading' = queue["isLoading"][1].val]_vars

\* a request was rejected while rows of an earlier response were
\* displayed, and the render that followed cleared the loading flag
C2_Witness ==
  /\ lastStep.kind = "render"
  /\ rejected = 1
  /\ loadingCleared = 2
  /\ inflight = {}
  /\ Displayed # <<>>
  /\ isLoading = FALSE

\* C3: a successful response is always handed to setData, whether or not
\* the request it answers is the latest one issued, and the next render
\* commits the response handed over last.  Hence overlapping requests end
\* with the payload of the one that resolved last, and data can be left
\* holding the response of a request whose parameters are not the selected
\* ones (C3_Witness).
C3_LastResolvedWins ==
  [][/\ ResolveStep =>
          \E r \in inflight \ inflight' :
             \E resp \in Responses :
                queue'["data"] = <<Upd("data", resp, Origin(r))>>
     /\ Commits("data") =>
          /\ data' = queue["data"][1].val
          /\ dataReq' = queue["data"][1].req]_vars

\* nothing is in flight or waiting, every request succeeded, and data is
\* the response of a request made for another currency than the one
\* selected now, for which the latest request was made: a request older
\* than the latest one resolved last
C3_Witness ==
  /\ Settled
  /\ inflight = {}
  /\ rejected = 0
  /\ issued >= 2
  /\ dataReq # NoReq
  /\ sent.id = issued
  /\ sent.params.vs_currency = ToLowerCase(currency.label)
  /\ dataReq.vs_currency # sent.params.vs_currency
  /\ data \in Responses

\* C4: if at least one issued request has neither resolved nor rejected,
\* isLoading is true (read on the states in which every setter call made
\* so far has been rendered).
C4_LoadingWhileInFlight == (Settled /\ inflight # {}) => isLoading

\* parameters a request must carry for the state (cur, so, pg)
ExpectedParams(cur, so, pg) ==
  [vs_currency |-> IF cur.label = <<"U","S","D">> THEN usd ELSE eur,
   order       |-> so.key,
   per_page    |-> pg.pageSize,
   page        |-> pg.current]

\* C5: mounting issues exactly one request, with (usd, market_cap_desc,
\* pageSize 10, page 1); every currency-selection, sort-selection or
\* pagination-change event makes the fetch effect due, also when the value
\* selected is the one already active, and the effect then issues exactly
\* one request, carrying the values of currency, sort key, page size and
\* page as they are after the event (page 1 for the two selections);
\* no other step issues a request.
C5_OneRequestPerTrigger ==
  [][/\ (mounted' /\ ~mounted) =>
          /\ issued' = 1
          /\ sent' = [id |-> 1,
                      params |-> [vs_currency |-> usd, order |-> MARKET_CAP_DESC,
                                  per_page |-> 10, page |-> 1]]
          /\ inflight' = {[id |-> 1, vs_currency |-> usd]}
     /\ (nEvents' = nEvents + 1) =>
          /\ due'.fetch
          /\ issued' = issued
          /\ SelectionStep => pagination'.current = 1
     /\ (mounted /\ due.fetch) =>
          /\ issued' = issued + 1
          /\ sent' = [id |-> issued',
                      params |-> ExpectedParams(currency, sortOrder, pagination)]
          /\ inflight \subseteq inflight'
          /\ inflight' \ inflight =
               {[id |-> issued', vs_currency |-> sent'.params.vs_currency]}
          /\ ~due'.fetch
          /\ <<currency', sortOrder', pagination'>> = <<currency, sortOrder, pagination>>
     /\ (mounted /\ ~due.fetch) => (issued' = issued /\ sent' = sent)]_vars

\* the only event so far selected USD, the currency active since mount,
\* on page 1, and a second request with the same parameters was issued
C5_Witness ==
  /\ nEvents = 1
  /\ issued = 2
  /\ lastStep.kind = "effects"
  /\ currency.label = <<"U","S","D">>
  /\ inflight = {[id |-> 1, vs_currency |-> usd], [id |-> 2, vs_currency |-> usd]}
  /\ sent = [id |-> 2,
             params |-> [vs_currency |-> usd, order |-> MARKET_CAP_DESC,
                         per_page |-> 10, page |-> 1]]

\* C6: no retry: the number of requests issued is 1 for the mount plus
\* the number of currency, sort and pagination events, the request of the
\* mount or of the last event being counted while the fetch effect that
\* issues it is still due; and the number of error notifications equals
\* the number of rejected requests.
C6_NoRetry ==
  /\ issued + (IF due.fetch THEN 1 ELSE 0) = 1 + nEvents
  /\ toasts = rejected

\* a request was rejected, another one succeeded, an event was handled
C6_Witness ==
  /\ Settled
  /\ rejected >= 1
  /\ dataReq # NoReq
  /\ nEvents >= 1
  /\ issued = 1 + nEvents
  /\ toasts = 1

\* name contains q as a case-insensitive substring
ContainsIgnoringCase(name, q) ==
  \E i \in 1..(Len(ToLowerCase(name)) - Len(ToLowerCase(q)) + 1) :
     SubSeq(ToLowerCase(name), i, i + Len(ToLowerCase(q)) - 1) = ToLowerCase(q)

\* the filter effect has run for the committed (filterQuery, data) and the
\* call it made has been rendered
FilterUpToDate == mounted /\ ~due.filter /\ queue["filteredData"] = <<>>

\* C7: whenever filterQuery is non-empty and the filter effect has run
\* for the current (filterQuery, data), the displayed rows are exactly the
\* subsequence of data, in original order, of the records whose name
\* contains filterQuery as a case-insensitive substring.
C7_FilteredView ==
  (filterQuery # <<>> /\ FilterUpToDate) =>
     Displayed = SelectSeq(data, LAMBDA c : ContainsIgnoringCase(c.name, filterQuery))

\* a later fetch replaced data by ["Bitcoin","Ethereum","Bitcoin Cash"]
\* while the query "BiT" was active, and the view holds the two names that
\* contain it in another case, in their original order
C7_Witness ==
  /\ filterQuery = BiT
  /\ FilterUpToDate
  /\ lastStep.kind = "render"
  /\ rejected = 0
  /\ loadingCleared >= 2
  /\ data = <<Bitcoin, Ethereum, BitcoinCash>>
  /\ Displayed = <<Bitcoin, BitcoinCash>>

\* C8: whenever filterQuery is the empty string, the displayed rows are
\* exactly data, whatever filteredData still holds.
C8_EmptyQueryShowsData ==
  (filterQuery = <<>>) => Displayed = data

\* the query was cleared, filteredData still holds the rows computed for
\* "BiT" on an earlier response, and data has been replaced since
C8_Witness ==
  /\ filterQuery = <<>>
  /\ filteredData = <<Bitcoin, BitcoinCash>>
  /\ data = <<Tether, Ethereum>>
  /\ Displayed = <<Tether, Ethereum>>

\* bounds of the eight buckets, in the order of priceFilters
BucketMin == <<0, 100, 200, 300, 400, 500, 600, 700>>
BucketMax == <<100, 200, 300, 400, 500, 600, 700>>
BucketIndex(v) == CHOOSE i \in 1..Len(priceFilters) : priceFilters[i] = v
InBucket(i, p) == p >= BucketMin[i] /\ (i > Len(BucketMax) \/ p <= BucketMax[i])

\* C9: onFilter(v, r) is true iff r.current_price >= min(v) and (v has no
\* max or r.current_price <= max(v)); bucket "300 - 400" includes r iff
\* 300 <= r.current_price <= 400, bucket "> 700" iff r.current_price >= 700.
C9_BucketMembership ==
  (fPc = "done") =>
     /\ fResult = InBucket(BucketIndex(fValue), fRecord.current_price)
     /\ (fValue = priceFilters[4]) =>
           (fResult = (300 <= fRecord.current_price /\ fRecord.current_price <= 400))
     /\ (fValue = priceFilters[8]) =>
           (fResult = (fRecord.current_price >= 700))

\* price 400 is accepted by bucket "300 - 400"
C9_Witness ==
  /\ fPc = "done"
  /\ fValue = priceFilters[4]
  /\ fRecord.current_price = 400
  /\ fResult = TRUE

\* C10 as stated: every price >= 0 is accepted by exactly one of the
\* eight bucket values.
C10_ExactlyOneBucket ==
  (fPc = "done") => Cardinality(fMatching) = 1

Boundaries == {100, 200, 300, 400, 500, 600, 700}

\* C10 amended: the buckets are the closed intervals [0,100], [100,200],
\* ..., [600,700] and [700, infinity): every integer price >= 0 is accepted
\* by at least one bucket value, and by exactly one unless the price is on
\* a boundary (100, ..., 700), which is accepted by both the bucket that
\* ends and the bucket that starts at that boundary.
C10_ClosedBuckets ==
  (fPc = "done") =>
     /\ fMatching = { priceFilters[i] : i \in { j \in 1..8 : InBucket(j, fRecord.current_price) } }
     /\ Cardinality(fMatching) =
          (IF fRecord.current_price \in Boundaries THEN 2 ELSE 1)
     /\ (fRecord.current_price \in Boundaries) =>
          \E i \in 1..7 :
             /\ fMatching = {priceFilters[i], priceFilters[i + 1]}
             /\ BucketMax[i] = fRecord.current_price
             /\ BucketMin[i + 1] = fRecord.current_price

\* price 100 is accepted by "0 - 100" and by "100 - 200"
C10_Witness ==
  /\ fPc = "done"
  /\ fRecord.current_price = 100
  /\ fMatching = {priceFilters[1], priceFilters[2]}

\* C11: for every trend series of length >= 2 the stroke is green
\* (#19db39) iff the last value is >= the first, and red (#d61616)
\* otherwise; a series with equal first and last values is green.
C11_TrendColour ==
  (tPc = "done" /\ Len(tSeries) >= 2) =>
     /\ tStroke \in {"#19db39", "#d61616"}
     /\ (tStroke = "#19db39") <=> (tSeries[Len(tSeries)] >= tSeries[1])
     /\ (tStroke = "#d61616") <=> (tSeries[Len(tSeries)] < tSeries[1])

\* a series that ends where it started, after a dip, rendered green
C11_Witness ==
  /\ tPc = "done"
  /\ tSeries = <<3, 0, 3>>
  /\ tStroke = "#19db39"

\* symbol of a currency label ("USD", "EUR") or request parameter ("usd", "eur")
SymbolOf(label) ==
  IF label \in {<<"U","S","D">>, <<"u","s","d">>} THEN <<"$">> ELSE <<"€">>

\* C12: in every reachable state in which rows are shown, the symbol
\* rendered in front of each price is the symbol of the currently selected
\* currency, also between a currency selection and the completion of its
\* request, and after that request fails (read on the states in which
\* every setter call made so far has been rendered).
C12_SymbolOfSelectedCurrency ==
  (Settled /\ Displayed # <<>>) => renderedSymbol = SymbolOf(currency.label)

\* C13: setData is called only by the continuation of a request that
\* resolved, with exactly the response of that request; data changes only
\* when a render commits such a call and is then exactly that response,
\* with nothing kept of the previous data; currency-selection,
\* sort-selection, pagination-change, search-typing, fetch-failure and
\* effect steps call no setData.
C13_DataReplacedWholesale ==
  [][/\ (queue'["data"] # queue["data"] /\ queue'["data"] # <<>>) =>
          /\ ResolveStep
          /\ \E r \in inflight \ inflight' :
                \E resp \in Responses :
                   queue'["data"] = <<Upd("data", resp, Origin(r))>>
     /\ (data' # data) =>
          /\ Commits("data")
          /\ data' = queue["data"][1].val
          /\ data' \in Responses
     /\ (\/ nEvents' # nEvents
         \/ filterQuery' # filterQuery
         \/ RejectStep
         \/ mounted' # mounted
         \/ EffectsStep) => queue'["data"] = queue["data"]]_vars

\* a second response replaced the three rows of an earlier one by its own two
C13_Witness ==
  /\ lastStep.kind = "render"
  /\ rejected = 0
  /\ loadingCleared = 2
  /\ nEvents >= 1
  /\ dataReq # NoReq
  /\ data = <<Tether, Ethereum>>
  /\ filteredData = <<Bitcoin, BitcoinCash>>

\* C14: pagination.totalCount, and so the total shown by the pagination
\* control, is 10000 in every reachable state.
C14_TotalCountFixed ==
  /\ pagination.totalCount = 10000
  /\ paginationTotal = 10000

\* a response arrived, the page and page size were changed and a selection
\* was made, and the total is still 10000
C14_Witness ==
  /\ dataReq # NoReq
  /\ nEvents >= 2
  /\ lastStep.kind \in {"currency", "sort"}
  /\ lastStep.pageBefore = 2
  /\ pagination.pageSize = 20
  /\ paginationTotal = 10000

\* C15: in every reachable state in which fetched rows are shown, the
\* symbol rendered in front of the prices is the symbol of the currency
\* with which the held data was requested (read on the states in which
\* every setter call made so far has been rendered).
C15_SymbolOfDataCurrency ==
  (Settled /\ dataReq # NoReq /\ Displayed # <<>>) =>
     renderedSymbol = SymbolOf(dataReq.vs_currency)

\* isLoading is shown as true and no setIsLoading(false) call waits for
\* the next render
LoadingHeld ==
  /\ isLoading
  /\ queue["isLoading"] # <<>> => queue["isLoading"][1].val

\* this step is the continuation of a request that resolved or rejected
CompletionStep == Cardinality(inflight') < Cardinality(inflight)

\* C16: if every issued request eventually resolves or rejects and the
\* user eventually stops producing events (from some point on nothing is in
\* flight), then eventually isLoading is false and stays false; and no
\* timeout clears the flag: setIsLoading(false) is called only by the
\* continuation of a request that completes, so while no request
\* completes, an isLoading that is true stays true.
C16_LoadingSettles ==
  /\ (<>[](inflight = {})) => (<>[](~isLoading))
  /\ [][(/\ queue'["isLoading"] # queue["isLoading"]
         /\ queue'["isLoading"] = <<Upd("isLoading", FALSE, NoReq)>>) => CompletionStep]_vars
  /\ [][(LoadingHeld /\ ~CompletionStep) => LoadingHeld']_vars

\* three requests were issued, all completed (at least one resolved and
\* one rejected), everything was rendered and the loading flag is down
C16_Witness ==
  /\ Settled
  /\ issued >= 3
  /\ inflight = {}
  /\ rejected >= 1
  /\ dataReq # NoReq
  /\ loadingCleared = issued
  /\ ~isLoading

\* C17: a search-typing event calls only setFilterQuery: the render that
\* ends it changes filterQuery and leaves data, currency, sortOrder,
\* pagination, isLoading and filteredData as they are, as well as the
\* setter calls that wait for the scheduled render; it issues no request
\* and makes only the filter effect due.  The filter effect then calls
\* setFilteredData with the rows matching the query, and calls nothing
\* when the query is empty: filteredData is left as it was, not cleared.
C17_TypingFrame ==
  [][/\ (filterQuery' # filterQuery) =>
          /\ issued' = issued
          /\ inflight' = inflight
          /\ due'.filter /\ ~due'.fetch
          /\ <<data', currency', sortOrder', pagination', isLoading', filteredData'>>
               = <<data, currency, sortOrder, pagination, isLoading, filteredData>>
          /\ queue' = queue
     /\ (EffectsStep /\ mounted /\ due.filter /\ filterQuery = <<>>) =>
          /\ queue'["filteredData"] = queue["filteredData"]
          /\ filteredData' = filteredData
     /\ (EffectsStep /\ mounted /\ due.filter /\ filterQuery # <<>>) =>
          /\ queue'["filteredData"] =
               <<Upd("filteredData",
                     SelectSeq(data, LAMBDA c : ContainsIgnoringCase(c.name, filterQuery)),
                     NoReq)>>
          /\ filteredData' = filteredData]_vars

\* the query was cleared while a request was in flight, the filter effect
\* has run, and filteredData still holds the rows computed for the earlier
\* query
C17_Witness ==
  /\ Settled
  /\ lastStep.kind = "effects"
  /\ filterQuery = <<>>
  /\ filteredData = <<Bitcoin, BitcoinCash>>
  /\ inflight # {}
  /\ isLoading

====
